---- MODULE Spec2Model ----
(***************************************************************************)
(* PDF splitting worker (src/pdfProcess/pdf_splitting_worker.py).          *)
(*                                                                         *)
(* The model follows the operations of PdfSplittingWorker as the code      *)
(* executes them:                                                          *)
(*   - handle_pdf_splitting_request, the callback the consumer runs for    *)
(*     every delivery of 'pdf-splitting-request';                          *)
(*   - _process_pdf_splitting_async, stage by stage;                       *)
(*   - send_part_conversion_requests, batch by batch and part by part;     *)
(*   - PDFSplitter.split_pdf, update_item_status, the retry clone.         *)
(*                                                                         *)
(* entry says which operation the run drives: "handler" is the worker as   *)
(* it is deployed (start() registers handle_pdf_splitting_request as the   *)
(* consumer callback), "process" calls _process_pdf_splitting_async on     *)
(* each request, "send" calls send_part_conversion_requests on a list of   *)
(* uploaded parts, "split" calls PDFSplitter.split_pdf and "upload" calls  *)
(* upload_parts_to_s3, each on its own; "lifecycle" calls start() and      *)
(* stop() against a broker, "status" calls update_item_status, "download"  *)
(* calls download_pdf_from_s3 and "upload_part" calls                      *)
(* S3StorageClient.upload_part; "stubbed" calls                            *)
(* _process_pdf_splitting_async on a worker whose split and upload stages  *)
(* are stand-ins that return their result, the way the repository's tests  *)
(* replace the stages (test_pdf_splitting_comprehensive.py), and whose     *)
(* dispatch stage is send_part_conversion_requests called without the      *)
(* progress callback; "lossy" is "handler" on a channel whose publish to   *)
(* 'pdf-splitting-request' raises.  The handler's two call sites of        *)
(* _process_pdf_splitting_async (lines 849 and 924) are never reached:     *)
(* the log statement at lines 828-833 evaluates asyncio.current_thread(),  *)
(* which is no attribute of asyncio, so every decodable delivery leaves    *)
(* the inner try by AttributeError (see ContextDetectionError).            *)
(*                                                                         *)
(* Environment assumptions: basic_publish, basic_ack and basic_nack        *)
(* themselves succeed (the broker is reachable), but for the publish of a  *)
(* retry request where env.retry_publish says it raises; the logging sink does *)
(* not raise.  Exceptions raised while the ARGUMENTS of a log call or of   *)
(* a progress callback are evaluated are part of the code and modelled,    *)
(* and so is a call of a logger method that enhanced_logger.ContextLogger  *)
(* does not define (trace).  upload_part is a collaborator: each call of   *)
(* it either stores the object and returns its key, or raises.             *)
(***************************************************************************)
EXTENDS Integers, Sequences, FiniteSets, TLC

VARIABLES entry,        \* the operation the run drives, see above
          env,          \* what the collaborators do: download outcome, pages of the document
          queue,        \* bodies waiting on 'pdf-splitting-request', oldest first
          log,          \* every basic_publish / basic_ack / basic_nack issued, in order
          attempts,     \* attempts[tag]: the delivery with that tag and how its handling ended
          cur,          \* the _process_pdf_splitting_async call in progress
          send,         \* the send_part_conversion_requests call in progress
          tempDirs,     \* tags whose temporary directory exists
          nextUuid,     \* uuid.uuid4() values handed out so far
          split,        \* the PDFSplitter.split_pdf call driven directly, and its result
          upload,       \* the upload_parts_to_s3 call in progress
          calls,        \* calls of the collaborators (download, split_pdf, upload_part), in order
          worker,       \* is_running, the RabbitMQClient's fields and what was called on it
          broker,       \* the RabbitMQ server: whether it answers, and the queues it holds
          dl,           \* the download_pdf_from_s3 call driven directly
          partUp        \* the upload_part calls driven directly, and the object store

vars == <<entry, env, queue, log, attempts, cur, send, tempDirs, nextUuid, split, upload, calls,
          worker, broker, dl, partUp>>

(***************************************************************************)
(* Bounds of the model.                                                    *)
(***************************************************************************)
MaxRetriesIn == 2       \* inbound maxRetries ranges over 0..MaxRetriesIn
MaxPages == 4           \* the downloaded document has 0..MaxPages pages
MaxSplit == 2           \* inbound splitSize ranges over -1..MaxSplit
MaxDocPages == 10       \* split_pdf called directly: documents of 0..MaxDocPages pages
MaxPartSize == 10       \* split_pdf called directly: split_size in -2..MaxPartSize
ProgressMargin == 3     \* update_item_status called directly: progress in -3..103
MaxUploadPartCalls == 2 \* upload_part called directly: at most MaxUploadPartCalls calls
MaxPartIndex == 2       \* upload_part called directly: part_index in 0..MaxPartIndex
MaxLifecycleCalls == 4  \* start() and stop() are called at most MaxLifecycleCalls times

(***************************************************************************)
(* Program constants.                                                      *)
(***************************************************************************)
DefaultMaxRetries == 3      \* message.get('maxRetries', 3)
DefaultSplitSize == 25      \* message.get('splitSize', 25)
concurrent_limit == 3       \* send_part_conversion_requests: batch size
MIN_SPLIT_SIZE == 10        \* Config.MIN_SPLIT_SIZE
MAX_SPLIT_SIZE == 100       \* Config.MAX_SPLIT_SIZE
download_max_retries == 3   \* download_pdf_from_s3: max_retries = 3
initial_retry_delay == 1    \* download_pdf_from_s3: retry_delay = 1  (seconds)
\* The document and the split size of the end-to-end scenario
\* (test_pdf_splitting.py: create_test_pdf(test_pdf_path, 15), split_size = 5).
ScenarioPages == 15
ScenarioSplitSize == 5

Min(a, b) == IF a < b THEN a ELSE b
Max(a, b) == IF a > b THEN a ELSE b

\* Python's a // b (floor division), b # 0.
FloorDiv(a, b) == IF b > 0 THEN a \div b ELSE (-a) \div (-b)

\* A faulty variant of Percent: the value is rounded to the nearest integer.
Percent_Rounded(a, b) == (200 * a + b) \div (2 * b)

\* int((a / b) * 100) for 0 <= a <= b, b > 0: the percentage, truncated.  The
\* quotient is a float; its product with 100 is the exact percentage for every
\* b < 50 (for a = 29, b = 50 it falls short and the result is 57, not 58).
Percent(a, b) == (a * 100) \div b

(***************************************************************************)
(* Messages.                                                               *)
(***************************************************************************)
\* messageId of the inbound request (chosen by the sender) and the values
\* uuid.uuid4() returns: the k-th call returns a value no earlier call returned.
SenderId == <<"sender", 0>>
Uuid(k) == <<"uuid4", k>>

\* int(datetime.now().timestamp()): epoch seconds.  The value is not modelled,
\* only that the field is set by the worker.
Timestamp == "epoch-seconds"

AllFields == {"messageId", "timestamp", "itemId", "s3Url", "s3Key", "fileName",
              "pageCount", "splitSize", "priority", "retryCount", "maxRetries"}

\* A decoded request: has is the set of keys of the JSON object.  A key that
\* is absent keeps a fixed filler value that no operator reads.
Request(has, retryCount, maxRetries, splitSize) ==
    [kind |-> "json", has |-> has, messageId |-> SenderId, timestamp |-> "sender-time",
     itemId |-> "item-1", s3Url |-> "https://source/doc.pdf", s3Key |-> "doc.pdf",
     fileName |-> "doc.pdf", pageCount |-> 0, priority |-> "normal",
     retryCount |-> retryCount, maxRetries |-> maxRetries, splitSize |-> splitSize]

\* The request m with 'pageCount': n, the page count its sender declares.
Declaring(m, n) == [m EXCEPT !.pageCount = n]

\* A body json.loads(body.decode('utf-8')) raises on.
Garbage == [Request({}, 0, 0, 0) EXCEPT !.kind = "garbage"]

\* message.get('itemId'): None when the key is absent.
GetItemId(m) == IF "itemId" \in m.has THEN m.itemId ELSE "None"
\* message.get('retryCount', 0)
GetRetryCount(m) == IF "retryCount" \in m.has THEN m.retryCount ELSE 0
\* message.get('maxRetries', 3)
GetMaxRetries(m) == IF "maxRetries" \in m.has THEN m.maxRetries ELSE DefaultMaxRetries
\* message.get('splitSize', 25)
GetSplitSize(m) == IF "splitSize" \in m.has THEN m.splitSize ELSE DefaultSplitSize
\* message.get('messageId')
GetMessageId(m) == IF "messageId" \in m.has THEN m.messageId ELSE <<"None", 0>>

\* should_retry = retry_count < max_retries
should_retry(m) == GetRetryCount(m) < GetMaxRetries(m)

\* A faulty variant of retry_request: the clone keeps the original messageId.
retry_request_KeepsMessageId(m, id) ==
    [m EXCEPT !.has = m.has \cup {"timestamp", "retryCount"},
              !.timestamp = Timestamp,
              !.retryCount = GetRetryCount(m) + 1]

\* A faulty variant of retry_request: the clone is built from the fields the
\* worker reads and leaves splitSize to the default.
retry_request_DropsSplitSize(m, id) ==
    [m EXCEPT !.has = (m.has \cup {"messageId", "timestamp", "retryCount"}) \ {"splitSize"},
              !.messageId = id,
              !.timestamp = Timestamp,
              !.retryCount = GetRetryCount(m) + 1]

\* retry_request = {**message, 'messageId': uuid4, 'timestamp': now, 'retryCount': retry_count + 1}
retry_request(m, id) ==
    [m EXCEPT !.has = m.has \cup {"messageId", "timestamp", "retryCount"},
              !.messageId = id,
              !.timestamp = Timestamp,
              !.retryCount = GetRetryCount(m) + 1]

\* An update_item_status that publishes the progress it was given.
ClampProgress_AsGiven(progress) == progress

\* progress = max(0, min(100, progress)) when progress is not None.
\* An optional integer is <<>> (None) or <<n>>.
ClampProgress(progress) ==
    IF progress = <<>> THEN <<>> ELSE <<Max(0, Min(100, progress[1]))>>

\* status_update of update_item_status.  message is <<text, detail>>: the fixed
\* text of the f-string and the value interpolated after it.
status_update(id, item_id, status, message, progress, error) ==
    [messageId |-> id, timestamp |-> Timestamp, eventType |-> "PDF_CONVERSION_PROGRESS",
     itemId |-> item_id, status |-> status, progress |-> ClampProgress(progress),
     message |-> message, error |-> error, worker_type |-> "pdf_splitting_worker"]

(***************************************************************************)
(* The channel: what the worker issued, in order.                          *)
(***************************************************************************)
NoMsg == [messageId |-> <<"None", 0>>]

Publish(tag, routing_key, message) ==
    [tag |-> tag, op |-> "publish", queue |-> routing_key, msg |-> message, requeue |-> FALSE]
\* A publish_message call that raised (lines 255-264): nothing reached the queue.
PublishRaised(tag, routing_key, message) ==
    [tag |-> tag, op |-> "publish_raised", queue |-> routing_key, msg |-> message,
     requeue |-> FALSE]
\* channel.basic_ack(delivery_tag)
Ack(tag) == [tag |-> tag, op |-> "ack", queue |-> "", msg |-> NoMsg, requeue |-> FALSE]
\* A faulty variant of Nack: the failure path acknowledges the delivery.
Nack_AsAck(tag) == Ack(tag)
\* A faulty variant of Nack: the broker is asked to redeliver.
Nack_Requeues(tag) == [tag |-> tag, op |-> "nack", queue |-> "", msg |-> NoMsg, requeue |-> TRUE]
\* channel.basic_nack(delivery_tag, requeue=False)
Nack(tag) == [tag |-> tag, op |-> "nack", queue |-> "", msg |-> NoMsg, requeue |-> FALSE]

\* update_item_status(item_id, status, message, progress, error): one publish
\* to 'pdf-conversion-progress'.
update_item_status(tag, id, item_id, status, message, progress, error) ==
    Publish(tag, "pdf-conversion-progress",
            status_update(id, item_id, status, message, progress, error))

\* A faulty variant of FailedStatus: the failure is reported as 'processing'.
FailedStatus_AsProcessing(tag, id, item_id, error_message) ==
    update_item_status(tag, id, item_id, "processing",
                       <<"PDF splitting failed: ", error_message>>, <<>>, error_message)

\* A faulty variant of FailedStatus: the event carries no error field.
FailedStatus_WithoutError(tag, id, item_id, error_message) ==
    update_item_status(tag, id, item_id, "failed",
                       <<"PDF splitting failed: ", error_message>>, <<>>, "None")

\* update_item_status(item_id, FAILED, f"PDF splitting failed: {error_message}",
\*                    error=error_message)
FailedStatus(tag, id, item_id, error_message) ==
    update_item_status(tag, id, item_id, "failed",
                       <<"PDF splitting failed: ", error_message>>, <<>>, error_message)

\* self.rabbitmq_client.publish_message('pdf-splitting-request', retry_request)
\* inside `try: ... except Exception as retry_error:` (lines 1002-1011 and
\* 1264-1273): when the publish raises, the error is logged and the block
\* goes on.
RetryPublish(tag, retry) ==
    IF env.retry_publish = "fail"
    THEN PublishRaised(tag, "pdf-splitting-request", retry)
    ELSE Publish(tag, "pdf-splitting-request", retry)

\* The failure block shared by the handler and _process_pdf_splitting_async:
\* the failed status, then the retry clone when should_retry, each publish
\* taking the next uuid4 value.
FailureBlock(tag, m, item_id, error_message, k) ==
    <<FailedStatus(tag, Uuid(k), item_id, error_message)>>
    \o (IF should_retry(m)
        THEN <<RetryPublish(tag, retry_request(m, Uuid(k + 1)))>>
        ELSE <<>>)

\* The bodies a sequence of channel operations puts on 'pdf-splitting-request'.
RECURSIVE Republished(_)
Republished(ops) ==
    IF ops = <<>> THEN <<>>
    ELSE (IF Head(ops).op = "publish" /\ Head(ops).queue = "pdf-splitting-request"
          THEN <<Head(ops).msg>> ELSE <<>>) \o Republished(Tail(ops))

\* The messages built for a sequence of operations, each with a fresh uuid4,
\* whether or not the publish went through.
NumPublishes(ops) ==
    Cardinality({i \in 1..Len(ops) : ops[i].op \in {"publish", "publish_raised"}})

(***************************************************************************)
(* Error texts: str(e) of the exceptions the code raises.                  *)
(***************************************************************************)
JSONDecodeError == "Expecting value: line 1 column 1 (char 0)"
ContextDetectionError == "module 'asyncio' has no attribute 'current_thread'"
KeyErrorS3Url == "'s3Url'"
KeyErrorFileName == "'fileName'"
DownloadFailed == "Download failed"
DownloadedFileNotFound == "Downloaded file not found"
UnboundStartPage == "cannot access local variable 'start_page' where it is not associated with a value"
IntDivisionByZero == "integer division or modulo by zero"
FloatDivisionByZero == "float division by zero"
TupleIndexOutOfRange == "tuple index out of range"
\* split_logger.trace(...) at line 380: ContextLogger (enhanced_logger.py,
\* lines 345-512) defines debug, info, warning, error, critical and exception,
\* and no trace.
NoTraceAttribute == "'ContextLogger' object has no attribute 'trace'"
\* str(e) of what basic_publish raised on a channel that went away.
PublishFailed == "channel closed"
UnboundErrorMessage == "cannot access local variable 'error_message' where it is not associated with a value"

(***************************************************************************)
(* PDFSplitter.split_pdf and the parts.                                    *)
(***************************************************************************)
\* A progress callback is "none" (no callback passed), "keyword" (a callable
\* that takes item_id, status, message, progress by keyword, such as the bound
\* method update_item_status) or "lambda": the callable the worker passes at
\* lines 1136, 1152 and 1180,
\*   lambda *args, **kwargs: self.update_item_status(item_id=item_id if args[0] is None ...)
\* Every caller passes keywords only, so args is () and args[0] raises IndexError.
Callbacks == {"none", "keyword", "lambda"}

\* part_info of split_pdf for part_index i (0-based).
part_info(i, split_size, total_pages) ==
    [part_index |-> i,
     start_page |-> i * split_size + 1,
     end_page |-> Min((i + 1) * split_size, total_pages),
     page_count |-> Min((i + 1) * split_size, total_pages) - i * split_size,
     filename |-> <<"part_", i + 1>>]

\* total_parts = (total_pages + split_size - 1) // split_size
total_parts_of(total_pages, split_size) ==
    FloorDiv(total_pages + split_size - 1, split_size)

\* The list the loop `for part_index in range(total_parts)` appends to, when
\* every iteration completes.
PartList(total_pages, split_size) ==
    [n \in 1..Max(0, total_parts_of(total_pages, split_size)) |->
        part_info(n - 1, split_size, total_pages)]

\* The loop `for page_num in range(start_page, end_page)` of part i has at
\* least one iteration: its first statement is split_logger.trace(...).
AddsAPage(i, split_size, total_pages) ==
    i * split_size < Min((i + 1) * split_size, total_pages)

\* split_pdf(input_path, output_dir, split_size, progress_callback) on a
\* document of total_pages pages: [ok, parts, err].  With a callback, the
\* first iteration builds the callback's message from start_page and end_page
\* before they are assigned (line 362) and raises UnboundLocalError.  Without
\* one, the first page added to a part raises AttributeError (line 380).  A
\* part without pages is written as it is (PdfWriter.write of no pages).
split_pdf(total_pages, split_size, cb) ==
    IF split_size = 0
    THEN [ok |-> FALSE, parts |-> <<>>, err |-> IntDivisionByZero]
    ELSE LET total_parts == total_parts_of(total_pages, split_size)
         IN IF total_parts <= 0
            THEN [ok |-> TRUE, parts |-> <<>>, err |-> ""]
            ELSE IF cb # "none"
            THEN [ok |-> FALSE, parts |-> <<>>, err |-> UnboundStartPage]
            ELSE IF \E i \in 0..(total_parts - 1) : AddsAPage(i, split_size, total_pages)
            THEN [ok |-> FALSE, parts |-> <<>>, err |-> NoTraceAttribute]
            ELSE [ok |-> TRUE, parts |-> PartList(total_pages, split_size), err |-> ""]

\* A stand-in of split_pdf: it returns the part records split_pdf builds for
\* the document (lines 404-415) and calls nothing back.
split_pdf_stub(total_pages, split_size) ==
    [ok |-> TRUE, parts |-> PartList(total_pages, split_size), err |-> ""]

\* S3StorageClient.upload_part: s3_key = f"pdf-parts/{item_id}/part_{part_index + 1}.pdf"
s3_key_of(item_id, part_index) ==
    [prefix |-> "pdf-parts", itemId |-> item_id, partNo |-> part_index + 1]
\* s3_url = f"https://{bucket}.{endpoint}/{s3_key}"
s3_url_of(key) == [base |-> "https://bucket.endpoint/", key |-> key]

\* uploaded_part = {**part, 's3_key': ..., 's3_url': ..., 'status': 'pending'}
uploaded_part(part, item_id) ==
    [s3_key |-> s3_key_of(item_id, part.part_index),
     s3_url |-> s3_url_of(s3_key_of(item_id, part.part_index)),
     status |-> "pending"] @@ part

\* upload_parts_to_s3 as _process_pdf_splitting_async calls it, with the
\* worker's lambda: the loop body starts with a callback call (line 1575),
\* which raises IndexError, so only an empty list comes back as [].
upload_parts_lambda(parts) ==
    IF parts = <<>>
    THEN [ok |-> TRUE, uploaded |-> <<>>, err |-> ""]
    ELSE [ok |-> FALSE, uploaded |-> <<>>, err |-> TupleIndexOutOfRange]

\* The stand-in of upload_parts_to_s3 a test installs: it returns one
\* uploaded part per part, or raises for a list that is not empty
\* (side_effect), and calls nothing back.
upload_parts_stub(parts, item_id, outcome) ==
    IF outcome = "fail" /\ parts # <<>>
    THEN [ok |-> FALSE, uploaded |-> <<>>, err |-> "Upload failed"]
    ELSE [ok |-> TRUE, uploaded |-> [n \in 1..Len(parts) |-> uploaded_part(parts[n], item_id)],
          err |-> ""]

\* A faulty variant of part_request: the file name carries the zero-based index.
part_request_ZeroBasedName(id, item_id, part, total_parts, original_request, batch_count, j) ==
    [messageId |-> id, timestamp |-> Timestamp,
     eventType |-> "PDF_PART_CONVERSION_REQUEST",
     itemId |-> item_id,
     partIndex |-> part.part_index,
     totalParts |-> total_parts,
     s3Url |-> part.s3_url,
     s3Key |-> part.s3_key,
     fileName |-> [parent |-> original_request.fileName, suffix |-> "_part_",
                   number |-> part.part_index],
     startPage |-> part.start_page,
     endPage |-> part.end_page,
     priority |-> original_request.priority,
     retryCount |-> 0,
     maxRetries |-> GetMaxRetries(original_request),
     originalRequestId |-> GetMessageId(original_request),
     batchNumber |-> batch_count,
     partInBatch |-> j + 1]

\* part_request of send_part_conversion_requests (lines 1709-1727).
part_request(id, item_id, part, total_parts, original_request, batch_count, j) ==
    [messageId |-> id, timestamp |-> Timestamp,
     eventType |-> "PDF_PART_CONVERSION_REQUEST",
     itemId |-> item_id,
     partIndex |-> part.part_index,
     totalParts |-> total_parts,
     s3Url |-> part.s3_url,
     s3Key |-> part.s3_key,
     fileName |-> [parent |-> original_request.fileName, suffix |-> "_part_",
                   number |-> part.part_index + 1],
     startPage |-> part.start_page,
     endPage |-> part.end_page,
     priority |-> original_request.priority,
     retryCount |-> 0,
     maxRetries |-> GetMaxRetries(original_request),
     originalRequestId |-> GetMessageId(original_request),
     batchNumber |-> batch_count,
     partInBatch |-> j + 1]

\* A progress callback call: what it publishes.  "lambda" never gets here
\* (it raises); "none" is skipped by `if progress_callback:`.
CallbackOps(cb, tag, k, item_id, status, text, progress) ==
    IF cb = "keyword"
    THEN <<update_item_status(tag, Uuid(k), item_id, status, <<text, "">>,
                              <<progress>>, "None")>>
    ELSE <<>>

(***************************************************************************)
(* State of the calls in progress.                                         *)
(***************************************************************************)
NoCall == [pc |-> "idle", tag |-> 0, parts |-> <<>>]

NoSend == [pc |-> "idle", tag |-> 0, item_id |-> "None", parts |-> <<>>,
           req |-> Garbage, cb |-> "none", i |-> 0, j |-> 0,
           batch_count |-> 0, pauses |-> 0, err |-> ""]

\* send_part_conversion_requests(item_id, parts, original_request, progress_callback)
\* entered: i = 0 is the first value of range(0, total_parts, concurrent_limit).
SendCall(tag, item_id, parts, req, cb) ==
    [pc |-> "batch", tag |-> tag, item_id |-> item_id, parts |-> parts, req |-> req,
     cb |-> cb, i |-> 0, j |-> 0, batch_count |-> 0, pauses |-> 0, err |-> ""]

\* A call of a collaborator made while handling delivery `tag`: the function,
\* its distinguishing argument (the split size, the part index) and whether
\* it returned (TRUE) or raised (FALSE).
Call(tag, fn, arg, ok) == [tag |-> tag, fn |-> fn, arg |-> arg, ok |-> ok]

\* The delivery tag of the next delivery: the broker numbers them 1, 2, ...
nextTag == Len(attempts) + 1

\* in_loop: the call was made on a thread whose event loop is running.
Attempt(body) ==
    [body |-> body, status |-> "running", stage |-> "none", err |-> "", in_loop |-> FALSE]

Ended(attempt, status, stage, err) ==
    [attempt EXCEPT !.status = status, !.stage = stage, !.err = err]

(***************************************************************************)
(* handle_pdf_splitting_request(channel, method, properties, body).        *)
(* The handler is synchronous and, as the context detection raises, never  *)
(* schedules anything: one delivery is one step.                           *)
(***************************************************************************)
\* Undecodable body: json.loads raises, 'message' is not in locals(), so
\* item_id = 'unknown', the failed status is published for it, no retry is
\* considered, and the delivery is nacked once (line 1024).
HandlerOpsGarbage(tag, k) ==
    <<FailedStatus(tag, Uuid(k), "unknown", JSONDecodeError), Nack(tag)>>

\* A handler that schedules the processing as a task and returns, as the
\* branch at lines 836-910 is written: nothing is issued for the delivery
\* before the handler is over.
HandlerOpsJson_Deferred(tag, m, k) == <<>>

\* Decoded body: the log call at 828-833 raises AttributeError inside the inner
\* try; `except Exception as context_error` nacks (line 945) and re-raises; the
\* outer except publishes the failed status, republishes when should_retry,
\* and nacks again (line 1024).
HandlerOpsJson(tag, m, k) ==
    <<Nack(tag)>>
    \o FailureBlock(tag, m, GetItemId(m), ContextDetectionError, k)
    \o <<Nack(tag)>>

\* The consumer calls the handler from start(), a coroutine, so with a running
\* event loop (in_loop); a direct caller has none.  The context is looked at
\* at line 837 only, after the statement that raises.
handle_pdf_splitting_request ==
    /\ entry \in {"handler", "lossy"}
    /\ queue # <<>>
    /\ \E in_loop \in BOOLEAN :
       LET body == Head(queue)
           tag == nextTag
           ops == IF body.kind = "garbage"
                  THEN HandlerOpsGarbage(tag, nextUuid)
                  ELSE HandlerOpsJson(tag, body, nextUuid)
       IN /\ log' = log \o ops
          /\ queue' = Tail(queue) \o Republished(ops)
          /\ nextUuid' = nextUuid + NumPublishes(ops)
          /\ attempts' = Append(attempts,
                 Ended([Attempt(body) EXCEPT !.in_loop = in_loop], "returned",
                       IF body.kind = "garbage" THEN "parse" ELSE "context",
                       IF body.kind = "garbage" THEN JSONDecodeError
                                                ELSE ContextDetectionError))
    /\ UNCHANGED <<worker, broker, dl, partUp,
                   entry, split, upload, calls, env, cur, send, tempDirs>>

(***************************************************************************)
(* _process_pdf_splitting_async(item_id, message, start_time, channel,     *)
(* method), one step per stage.                                            *)
(***************************************************************************)
CurBody == attempts[cur.tag].body
CurItem == GetItemId(CurBody)

\* A faulty variant of rmtree: the directory is left behind.
rmtree_LeavesDirectory(dirs, tag) == dirs

\* shutil.rmtree(temp_dir, ignore_errors=True) in the inner finally (line 1196).
rmtree(dirs, tag) == dirs \ {tag}

\* A stage raised: the inner finally removes the temporary directory and the
\* `except Exception as e` block (line 1217) runs next.
StageFails(stage, err) ==
    /\ attempts' = [attempts EXCEPT ![cur.tag] = Ended(@, "running", stage, err)]
    /\ tempDirs' = rmtree(tempDirs, cur.tag)
    /\ cur' = [cur EXCEPT !.pc = "except"]

\* Called with the next body of the queue: temp_dir = tempfile.mkdtemp(...).
ProcBegin ==
    /\ entry \in {"process", "stubbed"}
    /\ cur.pc = "idle"
    /\ queue # <<>>
    /\ attempts' = Append(attempts, Attempt(Head(queue)))
    /\ cur' = [pc |-> "download", tag |-> nextTag, parts |-> <<>>]
    /\ tempDirs' = tempDirs \cup {nextTag}
    /\ queue' = Tail(queue)
    /\ UNCHANGED <<worker, broker, dl, partUp,
                   entry, split, upload, calls, env, log, send, nextUuid>>

\* Lines 1055-1113: message['s3Url'] (KeyError when absent), the download, and
\* the check that the file is there.
ProcDownload ==
    /\ cur.pc = "download"
    /\ IF "s3Url" \notin CurBody.has THEN StageFails("download", KeyErrorS3Url)
       ELSE IF env.download = "fail" THEN StageFails("download", DownloadFailed)
       ELSE IF env.download = "nofile" THEN StageFails("download", DownloadedFileNotFound)
       ELSE /\ cur' = [cur EXCEPT !.pc = "split"]
            /\ UNCHANGED <<attempts, tempDirs>>
    /\ calls' = IF "s3Url" \in CurBody.has
                THEN Append(calls, Call(cur.tag, "download_pdf_from_s3", 0,
                                        env.download # "fail"))
                ELSE calls
    /\ UNCHANGED <<worker, broker, dl, partUp,
                   entry, split, upload, env, queue, log, send, nextUuid>>

\* A splitter that trusts the page count the request declares.
total_pages_Declared(e, m) == m.pageCount

\* total_pages = len(PdfReader(input_path).pages), lines 342-343: the pages of
\* the file the download stored (e), whatever the request (m) declares.
total_pages_read(e, m) == e.pages

\* The callback send_part_conversion_requests receives: the worker's lambda,
\* or none when the stage is wrapped so that the callback is not forwarded.
StageCallback == IF entry = "stubbed" THEN "none" ELSE "lambda"

\* self.pdf_splitter.split_pdf(pdf_path, temp_dir, split_size, <lambda>), line 1136.
SplitStage ==
    IF entry = "stubbed"
    THEN split_pdf_stub(total_pages_read(env, CurBody), GetSplitSize(CurBody))
    ELSE split_pdf(total_pages_read(env, CurBody), GetSplitSize(CurBody), "lambda")

\* A variant that keeps going when an upload failed.
UploadStage_SwallowsFailure ==
    IF entry = "stubbed" THEN upload_parts_stub(cur.parts, CurItem, "ok")
    ELSE upload_parts_lambda(cur.parts)

\* await self.upload_parts_to_s3(parts_info, item_id, temp_dir, <lambda>), line 1152.
UploadStage ==
    IF entry = "stubbed" THEN upload_parts_stub(cur.parts, CurItem, env.upload)
    ELSE upload_parts_lambda(cur.parts)

\* Lines 1115-1143: the 'splitting' status, then split_pdf with the lambda.
ProcSplit ==
    /\ cur.pc = "split"
    /\ log' = Append(log, update_item_status(cur.tag, Uuid(nextUuid), CurItem, "splitting",
                                             <<"Splitting PDF into parts", "">>, <<>>, "None"))
    /\ nextUuid' = nextUuid + 1
    /\ LET r == SplitStage
       IN IF r.ok
          THEN /\ cur' = [cur EXCEPT !.pc = "upload", !.parts = r.parts]
               /\ UNCHANGED <<attempts, tempDirs>>
          ELSE StageFails("split", r.err)
    /\ calls' = Append(calls, Call(cur.tag, "split_pdf", GetSplitSize(CurBody),
                                   SplitStage.ok))
    /\ UNCHANGED <<worker, broker, dl, partUp, entry, split, upload, env, queue, send>>

\* Lines 1145-1180: upload_parts_to_s3, the 'processing' status, and the call
\* of send_part_conversion_requests with the lambda.
ProcUpload ==
    /\ cur.pc = "upload"
    /\ LET r == UploadStage
       IN IF r.ok
          THEN /\ log' = Append(log, update_item_status(cur.tag, Uuid(nextUuid), CurItem,
                                    "processing", <<"PDF split into parts", "">>, <<>>, "None"))
               /\ nextUuid' = nextUuid + 1
               /\ cur' = [cur EXCEPT !.pc = "dispatch"]
               /\ send' = SendCall(cur.tag, CurItem, r.uploaded, CurBody, StageCallback)
               /\ UNCHANGED <<attempts, tempDirs>>
          ELSE /\ StageFails("upload", r.err)
               /\ UNCHANGED <<log, nextUuid, send>>
    /\ UNCHANGED <<worker, broker, dl, partUp, entry, split, upload, calls, env, queue>>

\* send_part_conversion_requests came back: the inner finally removes the
\* temporary directory; when it returned, basic_ack (line 1215), and control
\* falls out of the try into the block at 1284; when it raised, the except
\* block at 1217.
ProcDispatchEnd ==
    /\ cur.pc = "dispatch"
    /\ send.pc \in {"returned", "raised"}
    /\ send' = NoSend
    /\ IF send.pc = "returned"
       THEN /\ log' = Append(log, Ack(cur.tag))
            /\ cur' = [cur EXCEPT !.pc = "trailer"]
            /\ tempDirs' = rmtree(tempDirs, cur.tag)
            /\ UNCHANGED attempts
       ELSE /\ StageFails("dispatch", send.err)
            /\ UNCHANGED log
    /\ UNCHANGED <<worker, broker, dl, partUp, entry, split, upload, calls, env, queue, nextUuid>>

\* Lines 1217-1282, `except Exception as e`: failed status, retry clone when
\* should_retry, basic_nack(requeue=False).
ProcExcept ==
    /\ cur.pc = "except"
    /\ LET ops == FailureBlock(cur.tag, CurBody, CurItem, attempts[cur.tag].err, nextUuid)
                  \o <<Nack(cur.tag)>>
       IN /\ log' = log \o ops
          /\ queue' = queue \o Republished(ops)
          /\ nextUuid' = nextUuid + NumPublishes(ops)
    /\ cur' = [cur EXCEPT !.pc = "trailer"]
    /\ UNCHANGED <<worker, broker, dl, partUp,
                   entry, split, upload, calls, env, attempts, send, tempDirs>>

\* A variant in which error_message has a value on every path.
error_message_Defaulted(attempt) == TRUE

\* error_message is assigned at line 1218 only, in the except block: on the
\* path that left the try normally it is unbound at line 1285.
error_message_bound(attempt) == attempt.stage # "none"

\* Lines 1284-1320: the same block once more, after the try statement and not
\* inside any except clause: it runs on every path.  error_message is bound
\* only when the except block ran; otherwise reading it raises
\* UnboundLocalError and the call ends by that exception.  Here the retry
\* publish (lines 1312-1315) is not inside a try: when it raises, the call
\* ends by that exception, before the basic_nack of line 1320.
ProcTrailer ==
    /\ cur.pc = "trailer"
    /\ IF ~error_message_bound(attempts[cur.tag])
       THEN /\ attempts' = [attempts EXCEPT ![cur.tag] =
                               Ended(@, "raised", "none", UnboundErrorMessage)]
            /\ UNCHANGED <<log, queue, nextUuid>>
       ELSE LET block == FailureBlock(cur.tag, CurBody, CurItem, attempts[cur.tag].err,
                                      nextUuid)
                raised == \E i \in 1..Len(block) : block[i].op = "publish_raised"
                ops == IF raised THEN block ELSE block \o <<Nack(cur.tag)>>
            IN /\ log' = log \o ops
               /\ queue' = queue \o Republished(ops)
               /\ nextUuid' = nextUuid + NumPublishes(ops)
               /\ attempts' = [attempts EXCEPT ![cur.tag].status =
                                   IF raised THEN "raised" ELSE "returned"]
    /\ cur' = NoCall
    /\ UNCHANGED <<worker, broker, dl, partUp, entry, split, upload, calls, env, send, tempDirs>>

(***************************************************************************)
(* send_part_conversion_requests, lines 1668-1793.                         *)
(***************************************************************************)
SendRaises(err) == send' = [send EXCEPT !.pc = "raised", !.err = err]

\* Top of `for i in range(0, total_parts, concurrent_limit)`: the loop ends,
\* or the batch starts with a progress callback (line 1690).
SendBatch ==
    /\ send.pc = "batch"
    /\ IF send.i >= Len(send.parts)
       THEN /\ send' = [send EXCEPT !.pc = "finish"]
            /\ UNCHANGED <<log, nextUuid>>
       ELSE IF send.cb = "lambda"
       THEN /\ SendRaises(TupleIndexOutOfRange)
            /\ UNCHANGED <<log, nextUuid>>
       ELSE LET ops == CallbackOps(send.cb, send.tag, nextUuid, send.item_id, "processing",
                                   "Sending conversion requests",
                                   Percent(send.i, Len(send.parts)))
            IN /\ log' = log \o ops
               /\ nextUuid' = nextUuid + Len(ops)
               /\ send' = [send EXCEPT !.pc = "part", !.j = 0,
                                       !.batch_count = @ + 1]
    /\ UNCHANGED <<worker, broker, dl, partUp,
                   entry, split, upload, calls, env, queue, attempts, cur, tempDirs>>

\* One iteration of `for j, part in enumerate(batch)`: the request is built
\* (original_request['fileName'] raises KeyError when absent) and published,
\* then the progress callback (line 1747).
\* The publishes to 'pdf-part-conversion-request' attempted so far.
PartPublishes ==
    Cardinality({i \in DOMAIN log : log[i].queue = "pdf-part-conversion-request"})

\* A variant of the part picked at position n of the list: the parts that
\* already have a conversion request are passed over, the list starts again
\* behind them.
part_at_SkipsPublished(parts, n) ==
    parts[((n - 1 + PartPublishes) % Len(parts)) + 1]

\* part = batch[j], batch = uploaded_parts[i:i + concurrent_limit] (line 1687):
\* the n-th part of the list, whatever was published for it before.
part_at(parts, n) == parts[n]

SendPart ==
    /\ send.pc = "part"
    /\ LET total_parts == Len(send.parts)
           part == part_at(send.parts, send.i + send.j + 1)
           batch_len == Min(concurrent_limit, total_parts - send.i)
           request == Publish(send.tag, "pdf-part-conversion-request",
                              part_request(Uuid(nextUuid), send.item_id, part, total_parts,
                                           send.req, send.batch_count, send.j))
           ops == CallbackOps(send.cb, send.tag, nextUuid + 1, send.item_id, "processing",
                              "Sent conversion request",
                              Percent(send.i + send.j + 1, total_parts))
       IN IF "fileName" \notin send.req.has
          THEN /\ SendRaises(KeyErrorFileName)
               /\ UNCHANGED <<log, nextUuid>>
          ELSE IF PartPublishes = env.part_fail_at
          THEN /\ log' = Append(log, PublishRaised(send.tag, "pdf-part-conversion-request",
                                                    request.msg))
               /\ nextUuid' = nextUuid + 1
               /\ SendRaises(PublishFailed)
          ELSE IF send.cb = "lambda"
          THEN /\ log' = Append(log, request)
               /\ nextUuid' = nextUuid + 1
               /\ SendRaises(TupleIndexOutOfRange)
          ELSE /\ log' = (log \o <<request>>) \o ops
               /\ nextUuid' = nextUuid + 1 + Len(ops)
               /\ send' = IF send.j + 1 < batch_len
                          THEN [send EXCEPT !.j = @ + 1]
                          ELSE IF send.i + concurrent_limit < total_parts
                          THEN [send EXCEPT !.j = @ + 1, !.pc = "pause"]
                          ELSE [send EXCEPT !.j = 0, !.i = @ + concurrent_limit,
                                            !.pc = "batch"]
    /\ UNCHANGED <<worker, broker, dl, partUp,
                   entry, split, upload, calls, env, queue, attempts, cur, tempDirs>>

\* A faulty variant of SendPause: the next batch follows without a sleep.
SendPause_NoSleep ==
    /\ send.pc = "pause"
    /\ send' = [send EXCEPT !.j = 0, !.i = @ + concurrent_limit, !.pc = "batch"]
    /\ UNCHANGED <<worker, broker, dl, partUp,
                   entry, split, upload, calls, env, queue, log, attempts, cur, tempDirs, nextUuid>>

\* `if i + concurrent_limit < total_parts: await asyncio.sleep(1)`
SendPause ==
    /\ send.pc = "pause"
    /\ send' = [send EXCEPT !.pauses = @ + 1, !.j = 0, !.i = @ + concurrent_limit,
                            !.pc = "batch"]
    /\ UNCHANGED <<worker, broker, dl, partUp,
                   entry, split, upload, calls, env, queue, log, attempts, cur, tempDirs, nextUuid>>

\* After the loop, the closing log call computes total_request_time / total_parts
\* (line 1791): ZeroDivisionError for an empty list.
SendFinish ==
    /\ send.pc = "finish"
    /\ IF Len(send.parts) = 0
       THEN SendRaises(FloatDivisionByZero)
       ELSE send' = [send EXCEPT !.pc = "returned"]
    /\ UNCHANGED <<worker, broker, dl, partUp,
                   entry, split, upload, calls, env, queue, log, attempts, cur, tempDirs, nextUuid>>

(***************************************************************************)
(* PDFSplitter.split_pdf called directly (it is a static method).          *)
(***************************************************************************)
NoSplit == [pc |-> "idle", total_pages |-> 0, split_size |-> 1, cb |-> "none",
            parts |-> <<>>, err |-> ""]

SplitCall(total_pages, split_size, cb) ==
    [pc |-> "call", total_pages |-> total_pages, split_size |-> split_size, cb |-> cb,
     parts |-> <<>>, err |-> ""]

\* The call runs to its return or to the exception it re-raises (line 479).
\* A callback never publishes here: the first call of it raises while its
\* message argument is built.
SplitPdf ==
    /\ entry = "split"
    /\ split.pc = "call"
    /\ LET r == split_pdf(split.total_pages, split.split_size, split.cb)
       IN split' = [split EXCEPT !.pc = IF r.ok THEN "returned" ELSE "raised",
                                 !.parts = r.parts, !.err = r.err]
    /\ UNCHANGED <<worker, broker, dl, partUp,
                   entry, upload, calls, env, queue, log, attempts, cur, send, tempDirs,
                   nextUuid>>

(***************************************************************************)
(* upload_parts_to_s3(parts_info, item_id, temp_dir, progress_callback),   *)
(* lines 1556-1666, one step per iteration of `for i, part in enumerate`.  *)
(***************************************************************************)
UploadFailed == "Upload failed"

NoUpload == [pc |-> "idle", item_id |-> "None", parts |-> <<>>, cb |-> "none", i |-> 0,
             uploaded |-> <<>>, stored |-> {}, fail_at |-> -1, err |-> ""]

\* fail_at is the part_index whose upload_part raises, -1 when none does.
UploadCall(item_id, parts, cb, fail_at) ==
    [pc |-> "loop", item_id |-> item_id, parts |-> parts, cb |-> cb, i |-> 0,
     uploaded |-> <<>>, stored |-> {}, fail_at |-> fail_at, err |-> ""]

\* A faulty variant of upload_abort: the objects stored so far are removed.
upload_abort_RollsBack(u, err) == [u EXCEPT !.pc = "raised", !.err = err, !.stored = {}]

\* `except Exception as e: ... raise` (lines 1638-1650): the exception leaves
\* the loop and the call; what was stored stays stored.
upload_abort(u, err) == [u EXCEPT !.pc = "raised", !.err = err]

\* One iteration: the callback before the part (line 1575), upload_part, which
\* stores the object and calls the callback with progress=None, then the
\* callback with int(((i + 1) / len(parts_info)) * 100) (line 1620).
UploadPart ==
    /\ entry = "upload"
    /\ upload.pc = "loop"
    /\ upload.i < Len(upload.parts)
    /\ LET n == Len(upload.parts)
           part == upload.parts[upload.i + 1]
           fails == part.part_index = upload.fail_at
           before == CallbackOps(upload.cb, 0, nextUuid, upload.item_id, "processing",
                                 "Uploading part to storage", Percent(upload.i, n))
           inside == IF upload.cb = "keyword"
                     THEN <<update_item_status(0, Uuid(nextUuid + 1), upload.item_id,
                                "processing", <<"Uploaded part to storage", "">>,
                                <<>>, "None")>>
                     ELSE <<>>
           after == CallbackOps(upload.cb, 0, nextUuid + 2, upload.item_id, "processing",
                                "Uploaded part to storage", Percent(upload.i + 1, n))
           ops == IF fails THEN before ELSE before \o inside \o after
       IN /\ log' = log \o ops
          /\ nextUuid' = nextUuid + Len(ops)
          /\ calls' = Append(calls, Call(0, "upload_part", part.part_index, ~fails))
          /\ upload' = IF fails
                       THEN upload_abort(upload, UploadFailed)
                       ELSE [upload EXCEPT
                                !.i = @ + 1,
                                !.uploaded = Append(@, uploaded_part(part, upload.item_id)),
                                !.stored = @ \cup {s3_key_of(upload.item_id,
                                                             part.part_index)}]
    /\ UNCHANGED <<worker, broker, dl, partUp,
                   entry, split, env, queue, attempts, cur, send, tempDirs>>

\* The loop is over: return uploaded_parts.
UploadFinish ==
    /\ entry = "upload"
    /\ upload.pc = "loop"
    /\ upload.i = Len(upload.parts)
    /\ upload' = [upload EXCEPT !.pc = "returned"]
    /\ UNCHANGED <<worker, broker, dl, partUp,
                   entry, split, calls, env, queue, log, attempts, cur, send, tempDirs,
                   nextUuid>>

(***************************************************************************)
(* RabbitMQClient (lines 56-218) and the worker's start() and stop()       *)
(* (lines 705-792).  Once connect() has returned the broker keeps          *)
(* answering: basic_consume, basic_cancel and connection.close() return.   *)
(***************************************************************************)
\* The list `queues` of connect(), lines 95-100, in its order.
RequiredQueues == <<"pdf-splitting-request", "pdf-part-conversion-request",
                    "pdf-conversion-progress", "pdf-conversion-failed">>

\* A call on the pika connection or channel, as it goes to the broker.
Wire(op, queue_name, passive) == [op |-> op, queue |-> queue_name, passive |-> passive]

\* A call of a RabbitMQClient method by the worker and whether it returned.
ClientCall(fn, ok) == [fn |-> fn, ok |-> ok]

\* A declaration that is not passive: the broker creates the queue it lacks.
queue_declare_Creates(queues, q) == [ok |-> TRUE, queues |-> queues \cup {q}]

\* channel.queue_declare(queue=q, durable=True, passive=True), line 106: the
\* broker only looks the queue up, and answers NOT_FOUND (pika raises) when
\* it does not hold it.  `queues` are the queues of the broker.
queue_declare(queues, q) == [ok |-> q \in queues, queues |-> queues]

\* The loop `for queue_name in queues` from its i-th element, lines 103-120:
\* the first declaration that raises ends it (the except re-raises).
RECURSIVE DeclareFrom(_, _)
DeclareFrom(queues, i) ==
    IF i > Len(RequiredQueues)
    THEN [ok |-> TRUE, queues |-> queues, wire |-> <<>>]
    ELSE LET r == queue_declare(queues, RequiredQueues[i])
             w == <<Wire("queue_declare", RequiredQueues[i], TRUE)>>
         IN IF r.ok
            THEN LET rest == DeclareFrom(r.queues, i + 1)
                 IN [rest EXCEPT !.wire = w \o @]
            ELSE [ok |-> FALSE, queues |-> r.queues, wire |-> w]

\* RabbitMQClient.connect(), lines 66-141.  BlockingConnection raises when the
\* broker does not answer; otherwise the connection and the channel are kept
\* and the queues are looked up.  A failure leaves the connection open.
connect(w, b) ==
    IF ~b.reachable
    THEN [ok |-> FALSE, broker |-> b,
          worker |-> [w EXCEPT !.wire = Append(@, Wire("BlockingConnection", "", FALSE)),
                               !.api = Append(@, ClientCall("connect", FALSE))]]
    ELSE LET d == DeclareFrom(b.queues, 1)
         IN [ok |-> d.ok, broker |-> [b EXCEPT !.queues = d.queues],
             worker |-> [w EXCEPT !.connection = "open",
                                  !.wire = @ \o <<Wire("BlockingConnection", "", FALSE),
                                                  Wire("channel", "", FALSE)>> \o d.wire,
                                  !.api = Append(@, ClientCall("connect", d.ok))]]

\* RabbitMQClient.stop_consuming(), lines 199-218.
stop_consuming(w) ==
    LET c == [w EXCEPT !.api = Append(@, ClientCall("stop_consuming", TRUE))]
    IN IF c.consumer_tag # <<>>
       THEN [c EXCEPT !.wire = Append(@, Wire("basic_cancel", "", FALSE)),
                      !.consumer_tag = <<>>]
       ELSE c

\* RabbitMQClient.close(), lines 143-164.
close(w) ==
    LET c == [w EXCEPT !.api = Append(@, ClientCall("close", TRUE))]
    IN IF c.connection = "open"
       THEN [c EXCEPT !.wire = Append(@, Wire("close", "", FALSE)), !.connection = "closed"]
       ELSE c

\* A stop() that leaves the connection to the broker open.
stop_LeavesConnection(w) ==
    IF ~w.is_running THEN w ELSE [stop_consuming(w) EXCEPT !.is_running = FALSE]

\* PdfSplittingWorker.stop(), lines 758-792: nothing when the worker is not
\* running, else stop_consuming(), close(), is_running = False.
stop(w) ==
    IF ~w.is_running THEN w ELSE [close(stop_consuming(w)) EXCEPT !.is_running = FALSE]

\* The worker after __init__ (lines 699-703) and RabbitMQClient.__init__
\* (lines 59-64).  pc is "consuming" while start() is inside the blocking
\* channel.start_consuming().
NewWorker == [is_running |-> FALSE, connection |-> "none", consumer_tag |-> <<>>,
              pc |-> "idle", wire |-> <<>>, api |-> <<>>]

\* A start_consuming after which the worker already counts as running.
start_consuming_MarksRunning(w) ==
    [w EXCEPT !.consumer_tag = <<"ctag">>,
              !.pc = "consuming",
              !.is_running = TRUE,
              !.api = Append(@, ClientCall("start_consuming", TRUE)),
              !.wire = @ \o <<Wire("basic_consume", RequiredQueues[1], FALSE),
                              Wire("start_consuming", "", FALSE)>>]

\* RabbitMQClient.start_consuming('pdf-splitting-request', callback), lines
\* 166-188, up to the point where it blocks: basic_consume registers the
\* consumer, channel.start_consuming() runs the loop.  Nothing is assigned
\* to is_running here.
start_consuming(w) ==
    [w EXCEPT !.consumer_tag = <<"ctag">>,
              !.pc = "consuming",
              !.api = Append(@, ClientCall("start_consuming", TRUE)),
              !.wire = @ \o <<Wire("basic_consume", RequiredQueues[1], FALSE),
                              Wire("start_consuming", "", FALSE)>>]

\* start() up to the blocking call, lines 705-741: a running worker only
\* warns; else connect(), then start_consuming('pdf-splitting-request', ...)
\* which registers the consumer (basic_consume, auto_ack=False) and blocks in
\* channel.start_consuming().  An exception of connect() leaves start().
Start ==
    /\ entry = "lifecycle"
    /\ worker.pc = "idle"
    /\ Len(calls) < MaxLifecycleCalls
    /\ IF worker.is_running
       THEN /\ calls' = Append(calls, Call(Len(calls) + 1, "start", 1, TRUE))
            /\ UNCHANGED <<worker, broker>>
       ELSE LET c == connect(worker, broker)
            IN /\ broker' = c.broker
               /\ IF c.ok
                  THEN /\ worker' = start_consuming(c.worker)
                       /\ calls' = calls
                  ELSE /\ worker' = c.worker
                       /\ calls' = Append(calls, Call(Len(calls) + 1, "start", 0, FALSE))
    /\ UNCHANGED <<entry, env, queue, log, attempts, cur, send, tempDirs, nextUuid, split,
                   upload, dl, partUp>>

\* channel.start_consuming() returned: is_running = True (line 743) and
\* start() completes.
StartReturns ==
    /\ entry = "lifecycle"
    /\ worker.pc = "consuming"
    /\ worker' = [worker EXCEPT !.pc = "idle", !.is_running = TRUE]
    /\ calls' = Append(calls, Call(Len(calls) + 1, "start", 0, TRUE))
    /\ UNCHANGED <<entry, env, queue, log, attempts, cur, send, tempDirs, nextUuid, split,
                   upload, broker, dl, partUp>>

\* stop() called, from main()'s finally, a signal handler or a test; arg is 1
\* when the worker was running and 2 when the call came while start() still
\* blocks in the consume loop: is_running is False then and stop() only warns.
Stop ==
    /\ entry = "lifecycle"
    /\ Len(calls) < MaxLifecycleCalls
    /\ worker' = stop(worker)
    /\ calls' = Append(calls, Call(Len(calls) + 1, "stop",
                                   IF worker.is_running THEN 1
                                   ELSE IF worker.pc = "consuming" THEN 2 ELSE 0, TRUE))
    /\ UNCHANGED <<entry, env, queue, log, attempts, cur, send, tempDirs, nextUuid, split,
                   upload, broker, dl, partUp>>

(***************************************************************************)
(* update_item_status called directly (lines 1795-1887), as the progress   *)
(* callbacks and the tests call it.  The rate estimate of lines 1801-1836  *)
(* only fills estimated_completion and processing_rate.                    *)
(***************************************************************************)
\* The arguments of a call: progress is None or an integer around 0..100.
StatusArgs ==
    [item_id : {"item-1"}, status : {"processing", "completed"},
     message : {<<"Processing PDF", "">>},
     progress : {<<>>} \cup {<<n>> : n \in (0 - ProgressMargin)..(100 + ProgressMargin)}]

UpdateItemStatus ==
    /\ entry = "status"
    /\ log = <<>>
    /\ \E a \in StatusArgs :
          /\ log' = <<update_item_status(0, Uuid(nextUuid), a.item_id, a.status, a.message,
                                         a.progress, "None")>>
          /\ calls' = <<Call(0, "update_item_status", a, TRUE)>>
    /\ nextUuid' = nextUuid + 1
    /\ UNCHANGED <<entry, env, queue, attempts, cur, send, tempDirs, split, upload,
                   worker, broker, dl, partUp>>

(***************************************************************************)
(* S3StorageClient.upload_part(file_path, item_id, part_index) called      *)
(* directly, lines 494-693.  cfg says whether access_key and secret_key    *)
(* are both set, whether `import oss2` succeeds, and whether the store     *)
(* accepts put_object_from_file.                                           *)
(***************************************************************************)
NoKey == [prefix |-> "", itemId |-> "None", partNo |-> 0]

PutObjectFailed == "put_object_from_file failed"

Returned(key) == [ok |-> TRUE, s3_key |-> key, s3_url |-> s3_url_of(key), err |-> ""]
Raised(err) == [ok |-> FALSE, s3_key |-> NoKey, s3_url |-> s3_url_of(NoKey), err |-> err]

\* With credentials and oss2 the object is put under s3_key (line 554) and
\* the key and the address are returned (lines 678-681).  With credentials
\* but no oss2 (except ImportError, line 584) and without credentials (line
\* 628) the mock upload reads the file and calls storage_logger.trace (lines
\* 602 and 651), which ContextLogger does not define; the except at line 683
\* re-raises.
upload_part(cfg, item_id, part_index) ==
    LET s3_key == s3_key_of(item_id, part_index)
    IN IF cfg.credentials /\ cfg.oss2
       THEN IF cfg.put_ok THEN Returned(s3_key) ELSE Raised(PutObjectFailed)
       ELSE Raised(NoTraceAttribute)

StorageConfigs == [credentials : BOOLEAN, oss2 : BOOLEAN, put_ok : BOOLEAN]

PartUploads ==
    [pc : {"active"}, cfg : StorageConfigs, item_id : {"item-1", "item-2"},
     done : {<<>>}, stored : {{}}]

\* One call of upload_part, for any part index; a part index may come again,
\* as in a retry attempt of the request.
UploadPartDirect ==
    /\ entry = "upload_part"
    /\ Len(partUp.done) < MaxUploadPartCalls
    /\ \E part_index \in 0..MaxPartIndex :
          LET r == upload_part(partUp.cfg, partUp.item_id, part_index)
          IN partUp' = [partUp EXCEPT
                 !.done = Append(@, [part_index |-> part_index, res |-> r]),
                 !.stored = IF r.ok THEN @ \cup {r.s3_key} ELSE @]
    /\ UNCHANGED <<entry, env, queue, log, attempts, cur, send, tempDirs, nextUuid, split,
                   upload, calls, worker, broker, dl>>

(***************************************************************************)
(* download_pdf_from_s3(s3_url, output_path) called directly, lines        *)
(* 1322-1554, one step per iteration of `for attempt in range(max_retries)`*)
(***************************************************************************)
\* What session.get answers on one attempt: an HTTP response with a status
\* whose body is then read, a response with status 200 whose body read times
\* out, a timeout (asyncio.TimeoutError), or a connection error.
Http(status) == [kind |-> "http", status |-> status]
BodyTimeout == [kind |-> "body_timeout", status |-> 200]
RequestTimeout == [kind |-> "timeout", status |-> 0]
ConnectionError == [kind |-> "error", status |-> 0]
Responses == {Http(200), Http(204), Http(404), Http(503), BodyTimeout, RequestTimeout,
              ConnectionError}

\* Entries of the trace of a download: the GET with its answer, the sleep
\* with its seconds.
Get(r) == [ev |-> "GET", response |-> r, seconds |-> 0]
Sleep(d) == [ev |-> "sleep", response |-> RequestTimeout, seconds |-> d]

DownloadTimedOut == "Timeout downloading PDF from S3/OSS after 3 attempts"
DownloadAttemptsFailed == "Failed to download PDF from S3/OSS after 3 attempts"

\* A backoff that waits the same time before every attempt.
backoff_Constant(retry_delay) == retry_delay

\* retry_delay *= 2, lines 1483 and 1512.
backoff(retry_delay) == retry_delay * 2

\* The call entered: attempt = 0 is the first value of range(max_retries),
\* retry_delay = 1 (line 1372).
DownloadCall == [pc |-> "active", attempt |-> 0, retry_delay |-> initial_retry_delay,
                 trace |-> <<>>, err |-> ""]

\* One iteration, lines 1374-1522.  Status 200 with its body read: the file
\* is written and `break` leaves the loop, the function returns.  Any other
\* status raises Exception (line 1462) inside the try, which the handler at
\* line 1493 catches like a connection error; asyncio.TimeoutError goes to
\* the handler at line 1464.  Both handlers sleep retry_delay, double it and
\* `continue` while attempt < max_retries - 1, and raise on the last attempt.
DownloadAttempt ==
    /\ entry = "download"
    /\ dl.pc = "active"
    /\ \E r \in Responses :
          IF r = Http(200)
          THEN dl' = [dl EXCEPT !.pc = "returned", !.trace = Append(@, Get(r))]
          ELSE IF dl.attempt < download_max_retries - 1
               THEN dl' = [dl EXCEPT !.attempt = @ + 1,
                                     !.retry_delay = backoff(@),
                                     !.trace = @ \o <<Get(r), Sleep(dl.retry_delay)>>]
               ELSE dl' = [dl EXCEPT !.pc = "raised",
                                     !.trace = Append(@, Get(r)),
                                     !.err = IF r.kind \in {"timeout", "body_timeout"}
                                             THEN DownloadTimedOut
                                             ELSE DownloadAttemptsFailed]
    /\ UNCHANGED <<entry, env, queue, log, attempts, cur, send, tempDirs, nextUuid, split,
                   upload, calls, worker, broker, partUp>>

(***************************************************************************)
(* Inputs.                                                                 *)
(***************************************************************************)
RetryCounts == 0..(MaxRetriesIn + 1)
MaxRetriesValues == 0..MaxRetriesIn
SplitSizes == (-1)..MaxSplit

\* Decodable requests: complete ones, ones that leave retryCount/maxRetries or
\* splitSize to the defaults, and one that carries nothing but a messageId.
InboundRequests ==
    {Request(AllFields, rc, mr, ss) : rc \in RetryCounts, mr \in MaxRetriesValues,
                                       ss \in SplitSizes}
    \cup {Request(AllFields \ {"retryCount", "maxRetries"}, 0, 0, ss) : ss \in SplitSizes}
    \cup {Request(AllFields \ {"splitSize"}, rc, mr, 0) :
              rc \in RetryCounts, mr \in MaxRetriesValues}
    \cup {Request({"messageId"}, 0, 0, 0)}
    \cup {Request(AllFields, 0, mr, ScenarioSplitSize) : mr \in MaxRetriesValues}
    \cup {Declaring(Request(AllFields, 0, mr, ss), ScenarioPages) :
              mr \in MaxRetriesValues, ss \in SplitSizes \cup {ScenarioSplitSize}}

\* What the collaborators do for this request, the same on every attempt:
\* the download raises, returns without a file, or stores a document of
\* `pages` pages.
\* retry_publish: whether a publish to 'pdf-splitting-request' goes through;
\* upload: whether the stand-in of upload_parts_to_s3 returns;
\* part_fail_at: the publish to 'pdf-part-conversion-request' that raises,
\* counted from 0 over the run, -1 for none.
NoEnv == [download |-> "ok", pages |-> 0, retry_publish |-> "ok", upload |-> "ok",
          part_fail_at |-> -1]
Envs == {[NoEnv EXCEPT !.download = "fail"], [NoEnv EXCEPT !.download = "nofile"]}
        \cup {[NoEnv EXCEPT !.pages = n] : n \in (0..MaxPages) \cup {ScenarioPages}}
\* A channel on which publishing to 'pdf-splitting-request' raises.
LossyEnv == [NoEnv EXCEPT !.retry_publish = "fail"]

\* Runs of the stubbed worker: the download stores a document of 0..MaxPages
\* pages, or raises, and then the retry publish goes through or raises; the
\* upload stage returns or raises; one publish of a part request raises; the
\* request is complete.
StubbedEnvs ==
    {[NoEnv EXCEPT !.pages = n, !.upload = u] : n \in 0..MaxPages, u \in {"ok", "fail"}}
    \cup {[NoEnv EXCEPT !.download = "fail", !.retry_publish = r] : r \in {"ok", "fail"}}
    \cup {[NoEnv EXCEPT !.pages = n, !.part_fail_at = k] : n \in 2..MaxPages, k \in 0..1}
StubbedRequests ==
    {Request(AllFields, rc, mr, ss) : rc \in RetryCounts, mr \in MaxRetriesValues,
                                       ss \in 1..MaxSplit}

\* Lists of uploaded parts as a caller passes them: the part records of a
\* document cut by split_size, each with the key and address upload_part returns.
UploadedParts(item_id, total_pages, split_size) ==
    LET parts == PartList(total_pages, split_size)
    IN [n \in 1..Len(parts) |-> uploaded_part(parts[n], item_id)]

SendRequests == {Request(AllFields, rc, mr, 1) : rc \in RetryCounts, mr \in MaxRetriesValues}

\* Arguments of the direct calls of split_pdf and upload_parts_to_s3.
SplitCalls ==
    {SplitCall(n, ss, cb) : n \in 0..MaxDocPages, ss \in (-2)..MaxPartSize,
                            cb \in {"none", "keyword"}}

UploadCalls ==
    UNION {{UploadCall("item-1", PartList(n, ss), cb, k) :
                k \in (-1)..(Len(PartList(n, ss)) - 1)} :
           n \in 0..MaxPages, ss \in 1..MaxSplit, cb \in {"none", "keyword"}}

\* The brokers a worker may meet: answering or not, holding any of the queues.
Brokers == [reachable : BOOLEAN, queues : SUBSET {RequiredQueues[i] : i \in 1..Len(RequiredQueues)}]

\* The parts of the state an entry does not use.
NoWorker == NewWorker
NoBroker == [reachable |-> FALSE, queues |-> {}]
NoDownload == [pc |-> "idle"]
NoPart == [pc |-> "idle"]

Init ==
    /\ entry \in {"handler", "process", "send", "split", "upload", "lifecycle", "status", "upload_part",
                 "download", "stubbed", "lossy"}
    /\ log = <<>>
    /\ calls = <<>>
    /\ attempts = <<>>
    /\ cur = NoCall
    /\ tempDirs = {}
    /\ nextUuid = 1
    /\ IF entry = "lifecycle"
       THEN worker = NewWorker /\ broker \in Brokers
       ELSE worker = NoWorker /\ broker = NoBroker
    /\ dl = IF entry = "download" THEN DownloadCall ELSE NoDownload
    /\ IF entry = "upload_part" THEN partUp \in PartUploads ELSE partUp = NoPart
    /\ \/ /\ entry = "handler"
          /\ env = NoEnv
          /\ queue \in {<<b>> : b \in InboundRequests \cup {Garbage}}
          /\ send = NoSend
          /\ split = NoSplit
          /\ upload = NoUpload
       \/ /\ entry = "process"
          /\ env \in Envs
          /\ queue \in {<<b>> : b \in InboundRequests}
          /\ send = NoSend
          /\ split = NoSplit
          /\ upload = NoUpload
       \/ /\ entry = "lossy"
          /\ env = LossyEnv
          /\ queue \in {<<b>> : b \in InboundRequests \cup {Garbage}}
          /\ send = NoSend
          /\ split = NoSplit
          /\ upload = NoUpload
       \/ /\ entry = "stubbed"
          /\ env \in StubbedEnvs
          /\ queue \in {<<b>> : b \in StubbedRequests}
          /\ send = NoSend
          /\ split = NoSplit
          /\ upload = NoUpload
       \/ /\ entry = "send"
          /\ env = NoEnv
          /\ queue = <<>>
          /\ send \in {SendCall(0, GetItemId(r), UploadedParts(GetItemId(r), n, ss), r, cb) :
                          r \in SendRequests, n \in 0..MaxPages, ss \in 1..MaxSplit,
                          cb \in {"none", "keyword"}}
          /\ split = NoSplit
          /\ upload = NoUpload
       \/ /\ entry = "split"
          /\ env = NoEnv
          /\ queue = <<>>
          /\ send = NoSend
          /\ split \in SplitCalls
          /\ upload = NoUpload
       \/ /\ entry = "upload"
          /\ env = NoEnv
          /\ queue = <<>>
          /\ send = NoSend
          /\ split = NoSplit
          /\ upload \in UploadCalls
       \/ /\ entry \in {"lifecycle", "status", "upload_part", "download"}
          /\ env = NoEnv
          /\ queue = <<>>
          /\ send = NoSend
          /\ split = NoSplit
          /\ upload = NoUpload

Next ==
    \/ handle_pdf_splitting_request
    \/ ProcBegin
    \/ ProcDownload
    \/ ProcSplit
    \/ ProcUpload
    \/ ProcDispatchEnd
    \/ ProcExcept
    \/ ProcTrailer
    \/ SendBatch
    \/ SendPart
    \/ SendPause
    \/ SendFinish
    \/ SplitPdf
    \/ UploadPart
    \/ UploadFinish
    \/ Start
    \/ StartReturns
    \/ Stop
    \/ UpdateItemStatus
    \/ UploadPartDirect
    \/ DownloadAttempt

Spec == Init /\ [][Next]_vars

\* The consumer keeps delivering and every call runs to its end.
FairSpec == Spec /\ WF_vars(Next)

(***************************************************************************)
(* Vocabulary of the properties.                                           *)
(***************************************************************************)
Tags == DOMAIN attempts
Finished(t) == attempts[t].status # "running"
\* The handling of delivery t failed after the body was parsed.
FailedAfterParse(t) == attempts[t].stage \notin {"none", "parse"}

OpsOf(t) == {i \in DOMAIN log : log[i].tag = t}
Acks(t) == {i \in OpsOf(t) : log[i].op = "ack"}
Nacks(t) == {i \in OpsOf(t) : log[i].op = "nack"}
Published == {i \in DOMAIN log : log[i].op = "publish"}
RetryMessages(t) == {i \in OpsOf(t) \cap Published : log[i].queue = "pdf-splitting-request"}
ProgressEvents(t) == {i \in OpsOf(t) \cap Published : log[i].queue = "pdf-conversion-progress"}
FailedEvents(t) == {i \in ProgressEvents(t) : log[i].msg.status = "failed"}
PartRequests(t) == {i \in OpsOf(t) \cap Published :
                       log[i].queue = "pdf-part-conversion-request"}

\* The k-th part-conversion request published, in publication order.
RECURSIVE PartRequestSeq(_)
PartRequestSeq(ops) ==
    IF ops = <<>> THEN <<>>
    ELSE (IF Head(ops).op = "publish" /\ Head(ops).queue = "pdf-part-conversion-request"
          THEN <<Head(ops).msg>> ELSE <<>>) \o PartRequestSeq(Tail(ops))

(***************************************************************************)
(* C1: every delivery handed to handle_pdf_splitting_request gets exactly  *)
(* one settlement, one basic_ack or one basic_nack, over its handling.     *)
(***************************************************************************)
C1_ExactlyOneSettlement ==
    \A t \in Tags :
        (entry = "handler" /\ Finished(t))
            => Cardinality(Acks(t) \cup Nacks(t)) = 1

(***************************************************************************)
(* C2: a basic_ack is issued only after a part-conversion request has been *)
(* published for every part of the document, and never for a delivery      *)
(* whose download, split, upload or dispatch failed.                       *)
(***************************************************************************)
C2_AckOnlyAfterDispatch ==
    \A t \in Tags :
        /\ FailedAfterParse(t) => Acks(t) = {}
        /\ \A i \in Acks(t) :
              /\ attempts[t].stage = "none"
              /\ Cardinality({j \in PartRequests(t) : j < i})
                    = Max(0, total_parts_of(env.pages, GetSplitSize(attempts[t].body)))

\* A download failure has been handled to the end: settled, and not by an ack.
C2_Witness ==
    \E t \in Tags :
        /\ Finished(t)
        /\ attempts[t].stage = "download"
        /\ Nacks(t) # {}
        /\ Acks(t) = {}

(***************************************************************************)
(* C3: a request with retryCount < maxRetries whose processing fails after *)
(* parsing yields exactly one message on 'pdf-splitting-request', with     *)
(* retryCount + 1, the same itemId and another messageId, and the delivery *)
(* is nacked with requeue=false.                                           *)
(***************************************************************************)
C3_ExactlyOneRetryMessage ==
    \A t \in Tags :
        (Finished(t) /\ FailedAfterParse(t) /\ should_retry(attempts[t].body))
            => /\ Cardinality(RetryMessages(t)) = 1
               /\ \A i \in RetryMessages(t) :
                     /\ log[i].msg.retryCount = GetRetryCount(attempts[t].body) + 1
                     /\ GetItemId(log[i].msg) = GetItemId(attempts[t].body)
                     /\ log[i].msg.messageId # GetMessageId(attempts[t].body)
               /\ \E i \in Nacks(t) : ~log[i].requeue

(***************************************************************************)
(* C4: a request with retryCount >= maxRetries whose processing fails      *)
(* yields no message on 'pdf-splitting-request' and exactly one progress   *)
(* event with status 'failed'.                                             *)
(***************************************************************************)
C4_TerminalOneFailedEvent ==
    \A t \in Tags :
        (Finished(t) /\ FailedAfterParse(t) /\ ~should_retry(attempts[t].body))
            => /\ RetryMessages(t) = {}
               /\ Cardinality(FailedEvents(t)) = 1

(***************************************************************************)
(* C5: from one request with retryCount = 0 that fails on every attempt,   *)
(* at most maxRetries retry messages are republished over the whole chain. *)
(***************************************************************************)
C5_RetryBounded ==
    (attempts # <<>> /\ GetRetryCount(attempts[1].body) = 0
        /\ \A t \in Tags : attempts[t].stage # "none")
      => Cardinality({i \in Published : log[i].queue = "pdf-splitting-request"})
            <= GetMaxRetries(attempts[1].body)

(***************************************************************************)
(* C6: an undecodable body is nacked exactly once with requeue=false, no   *)
(* message goes to 'pdf-splitting-request' and no progress event at all    *)
(* is published.                                                           *)
(***************************************************************************)
C6_GarbageDroppedSilently ==
    \A t \in Tags :
        (Finished(t) /\ attempts[t].body.kind = "garbage")
            => /\ Cardinality(Nacks(t)) = 1
               /\ \A i \in Nacks(t) : ~log[i].requeue
               /\ Acks(t) = {}
               /\ RetryMessages(t) = {}
               /\ ProgressEvents(t) = {}

(***************************************************************************)
(* C7: a decodable message that lacks required fields (itemId, s3Url) is   *)
(* nacked exactly once with requeue=false and no retry message is          *)
(* published, whatever its retryCount.                                     *)
(***************************************************************************)
C7_MissingFieldsDropped ==
    \A t \in Tags :
        (Finished(t) /\ attempts[t].body.kind = "json"
              /\ ~({"itemId", "s3Url"} \subseteq attempts[t].body.has))
            => /\ Cardinality(Nacks(t)) = 1
               /\ \A i \in Nacks(t) : ~log[i].requeue
               /\ RetryMessages(t) = {}

(***************************************************************************)
(* C8: every processing attempt that failed after parsing, retryable or    *)
(* terminal, published a 'failed' progress event for the request's itemId  *)
(* with message 'PDF splitting failed: <error text>' and error = the error *)
(* text, and the delivery was nacked with requeue=false after it.          *)
(***************************************************************************)
C8_FailedEventThenNack ==
    \A t \in Tags :
        (Finished(t) /\ FailedAfterParse(t))
            => \E i \in FailedEvents(t) :
                  /\ log[i].msg.itemId = GetItemId(attempts[t].body)
                  /\ log[i].msg.message = <<"PDF splitting failed: ", attempts[t].err>>
                  /\ log[i].msg.error = attempts[t].err
                  /\ \E j \in Nacks(t) : j > i /\ ~log[j].requeue

\* A retryable split failure and, in another run, a terminal one: here the
\* split stage failed and was handled to the end.
C8_Witness ==
    \E t \in Tags :
        /\ Finished(t)
        /\ attempts[t].stage = "split"
        /\ FailedEvents(t) # {}

InboundOf(i) == IF log[i].tag \in Tags THEN attempts[log[i].tag].body ELSE send.req

C10_FreshIdsAndZeroRetryCount ==
    \A i \in Published :
        /\ log[i].msg.timestamp = Timestamp
        /\ log[i].msg.messageId # GetMessageId(InboundOf(i))
        /\ \A j \in Published : j # i => log[j].msg.messageId # log[i].msg.messageId
        /\ log[i].queue = "pdf-part-conversion-request" => log[i].msg.retryCount = 0

\* Part-conversion requests and progress events published for a parent
\* request that is itself a retry.
C10_Witness ==
    /\ entry = "send"
    /\ send.pc = "returned"
    /\ GetRetryCount(send.req) > 0
    /\ \E i, j \in Published :
          /\ log[i].queue = "pdf-part-conversion-request"
          /\ log[j].queue = "pdf-conversion-progress"

(***************************************************************************)
(* Vocabulary of the properties of split_pdf and upload_parts_to_s3.       *)
(***************************************************************************)
\* The direct call of split_pdf is over, by return or by exception.
SplitDone == entry = "split" /\ split.pc \in {"returned", "raised"}

RECURSIVE SumPageCount(_)
SumPageCount(parts) ==
    IF parts = <<>> THEN 0 ELSE Head(parts).page_count + SumPageCount(Tail(parts))

\* The parts are a partition of pages 1..total_pages in page order.
IsPartition(parts, total_pages) ==
    /\ parts # <<>>
    /\ parts[1].start_page = 1
    /\ parts[Len(parts)].end_page = total_pages
    /\ \A k \in 1..(Len(parts) - 1) : parts[k + 1].start_page = parts[k].end_page + 1
    /\ \A k \in 1..Len(parts) :
          /\ parts[k].part_index = k - 1
          /\ parts[k].start_page <= parts[k].end_page
          /\ parts[k].page_count = parts[k].end_page - parts[k].start_page + 1
    /\ SumPageCount(parts) = total_pages

(***************************************************************************)
(* C11: for a document of pageCount > 0 pages and a split size >= 1,       *)
(* split_pdf returns parts that are contiguous, do not overlap, cover      *)
(* exactly pages 1..pageCount, have page_count = end_page - start_page + 1 *)
(* summing to pageCount, and part_index 0..n-1 in page order.              *)
(***************************************************************************)
C11_ReturnsPartition ==
    (SplitDone /\ split.cb = "none" /\ split.total_pages > 0 /\ split.split_size >= 1)
        => /\ split.pc = "returned"
           /\ IsPartition(split.parts, split.total_pages)

(***************************************************************************)
(* C12: split_pdf produces exactly ceil(pageCount / splitSize) parts, part *)
(* i covering pages i*splitSize + 1 .. min((i+1)*splitSize, pageCount):    *)
(* 10 pages by 3 give 1-3, 4-6, 7-9, 10-10; 2 pages by 10 give 1-2; one    *)
(* page gives one part.                                                    *)
(***************************************************************************)
PageRanges(parts) == [k \in 1..Len(parts) |-> <<parts[k].start_page, parts[k].end_page>>]

C12_CeilingManyParts ==
    (SplitDone /\ split.cb = "none" /\ split.total_pages > 0 /\ split.split_size >= 1)
        => LET n == Len(split.parts)
               size == split.split_size
               pages == split.total_pages
           IN /\ split.pc = "returned"
              /\ n * size >= pages
              /\ (n - 1) * size < pages
              /\ \A i \in 0..(n - 1) :
                    PageRanges(split.parts)[i + 1]
                        = <<i * size + 1, IF (i + 1) * size < pages THEN (i + 1) * size
                                                                     ELSE pages>>
              /\ (pages = 10 /\ size = 3)
                    => PageRanges(split.parts) = <<<<1, 3>>, <<4, 6>>, <<7, 9>>, <<10, 10>>>>
              /\ (pages = 2 /\ size = 10) => PageRanges(split.parts) = <<<<1, 2>>>>
              /\ pages = 1 => n = 1

(***************************************************************************)
(* C13: split_pdf fails with an error, and returns no parts, whenever the  *)
(* document has 0 pages, the split size is 0, or the split size is         *)
(* negative.                                                               *)
(***************************************************************************)
C13_InvalidArgumentsRejected ==
    (SplitDone /\ (split.total_pages = 0 \/ split.split_size <= 0))
        => /\ split.pc = "raised"
           /\ split.parts = <<>>

(***************************************************************************)
(* C14: a request whose retryCount is greater than maxRetries is never     *)
(* processed: nothing is downloaded, split or uploaded for it and nothing  *)
(* is republished; it ends failed.                                         *)
(***************************************************************************)
CallsOf(t) == {i \in DOMAIN calls : calls[i].tag = t}

C14_ExcessRetryCountNotProcessed ==
    \A t \in Tags :
        (attempts[t].body.kind = "json"
              /\ GetRetryCount(attempts[t].body) > GetMaxRetries(attempts[t].body))
            => /\ CallsOf(t) = {}
               /\ PartRequests(t) = {}
               /\ RetryMessages(t) = {}
               /\ Finished(t) => FailedEvents(t) # {}

(***************************************************************************)
(* C15: the split size a document is partitioned with lies in              *)
(* MIN_SPLIT_SIZE..MAX_SPLIT_SIZE = 10..100: a requested splitSize below   *)
(* 10 is raised to 10, one above 100 lowered to 100.                       *)
(***************************************************************************)
C15_SplitSizeClamped ==
    \A i \in DOMAIN calls :
        calls[i].fn = "split_pdf"
            => /\ calls[i].arg >= MIN_SPLIT_SIZE
               /\ calls[i].arg <= MAX_SPLIT_SIZE
               /\ LET requested == GetSplitSize(attempts[calls[i].tag].body)
                  IN calls[i].arg = Max(MIN_SPLIT_SIZE, Min(MAX_SPLIT_SIZE, requested))

(***************************************************************************)
(* C16: upload_parts_to_s3 uploads the parts one after another in index    *)
(* order 0..n-1, and after the k-th successful upload of n it emits a      *)
(* progress event whose progress is round(100 * k / n).                    *)
(***************************************************************************)
\* 100 * k / n rounded to the nearest integer.
RoundPercent(k, n) == (200 * k + n) \div (2 * n)

\* The progress values of the events emitted after a completed upload
\* ("Uploaded part i of n to storage (p%)"), in order.
RECURSIVE CompletionProgress(_)
CompletionProgress(ops) ==
    IF ops = <<>> THEN <<>>
    ELSE (IF /\ Head(ops).op = "publish"
             /\ Head(ops).queue = "pdf-conversion-progress"
             /\ Head(ops).msg.message[1] = "Uploaded part to storage"
             /\ Head(ops).msg.progress # <<>>
          THEN <<Head(ops).msg.progress[1]>> ELSE <<>>) \o CompletionProgress(Tail(ops))

C17_UploadFailureAborts ==
    /\ (entry = "upload" /\ upload.pc = "raised")
          => /\ \A i \in DOMAIN calls : calls[i].arg <= upload.fail_at
             /\ Len(upload.uploaded) = upload.fail_at
             /\ upload.stored = {s3_key_of(upload.item_id, j) : j \in 0..(upload.fail_at - 1)}
    /\ \A t \in Tags :
          (Finished(t) /\ attempts[t].stage = "upload")
             => /\ FailedEvents(t) # {}
                /\ (RetryMessages(t) # {}) <=> should_retry(attempts[t].body)
                /\ \E i \in Nacks(t) : ~log[i].requeue

\* The upload of a part in the middle failed: parts were stored before it and
\* parts remain after it.
C17_Witness ==
    /\ entry = "upload"
    /\ upload.pc = "raised"
    /\ upload.fail_at >= 1
    /\ upload.fail_at + 1 < Len(upload.parts)
    /\ upload.stored # {}

(***************************************************************************)
(* C18: the temporary directory created for a request is removed on every  *)
(* exit path of _process_pdf_splitting_async: once the stages are left, by *)
(* success or by a failure in download, split, upload or dispatch, no      *)
(* directory of that request remains.                                      *)
(***************************************************************************)
C18_TempDirRemoved ==
    /\ \A t \in Tags : Finished(t) => t \notin tempDirs
    /\ cur.pc \in {"except", "trailer"} => cur.tag \notin tempDirs

\* The directory was created, the document downloaded into it, the split
\* failed, and the call is over with no directory left.
C18_Witness ==
    \E t \in Tags :
        /\ entry = "process"
        /\ Finished(t)
        /\ attempts[t].stage = "split"
        /\ \E i \in CallsOf(t) : calls[i].fn = "download_pdf_from_s3" /\ calls[i].ok
        /\ tempDirs = {}

(***************************************************************************)
(* C19: every basic_nack the worker issues, on every path of               *)
(* handle_pdf_splitting_request and _process_pdf_splitting_async, has      *)
(* requeue=false; a retry is a newly published message, never a broker     *)
(* redelivery.                                                             *)
(***************************************************************************)
C19_NeverRequeue ==
    \A i \in DOMAIN log : log[i].op = "nack" => log[i].requeue = FALSE

\* A request was retried: its clone was published and the delivery nacked.
C19_Witness ==
    \E t \in Tags :
        /\ Finished(t)
        /\ RetryMessages(t) # {}
        /\ Nacks(t) # {}

(***************************************************************************)
(* C20: when a request fails with retries exhausted (retryCount >=         *)
(* maxRetries) a terminal failure record with the shape of a 'failed'      *)
(* progress event is published to 'pdf-conversion-failed'.                 *)
(***************************************************************************)
C20_TerminalFailureRecorded ==
    \A t \in Tags :
        (Finished(t) /\ FailedAfterParse(t) /\ ~should_retry(attempts[t].body))
            => \E i \in OpsOf(t) \cap Published :
                  /\ log[i].queue = "pdf-conversion-failed"
                  /\ log[i].msg.status = "failed"
                  /\ log[i].msg.itemId = GetItemId(attempts[t].body)

(***************************************************************************)
(* C21: a validation failure (split size 0 or negative, or a document of   *)
(* zero pages) is terminal: even with retryCount < maxRetries no retry     *)
(* message is published to 'pdf-splitting-request' for it.                 *)
(***************************************************************************)
\* Delivery t got as far as partitioning, with an invalid size or an empty document.
InvalidSplit(t) ==
    \E i \in CallsOf(t) :
        /\ calls[i].fn = "split_pdf"
        /\ (calls[i].arg <= 0 \/ env.pages = 0)

C21_ValidationFailureNotRetried ==
    \A t \in Tags : (Finished(t) /\ InvalidSplit(t)) => RetryMessages(t) = {}

\* The RabbitMQClient methods the step from the current state called, in order.
NewClientCalls == SubSeq(worker'.api, Len(worker.api) + 1, Len(worker'.api))

\* The step is the return of a start() that found the worker stopped.
StartCompletes ==
    /\ Len(calls') = Len(calls) + 1
    /\ calls'[Len(calls')].fn = "start"
    /\ calls'[Len(calls')].ok
    /\ ~worker.is_running

\* The step is a stop() of a running worker.
StopOfRunning ==
    /\ Len(calls') = Len(calls) + 1
    /\ calls'[Len(calls')].fn = "stop"
    /\ worker.is_running

(***************************************************************************)
(* C22: when start() completes on a stopped worker is_running is true; a   *)
(* stop() of the running worker calls stop_consuming exactly once, then    *)
(* close exactly once, and leaves is_running false.                        *)
(***************************************************************************)
C22_StartThenStop ==
    [][/\ StartCompletes => worker'.is_running
       /\ StopOfRunning =>
              /\ NewClientCalls = <<ClientCall("stop_consuming", TRUE), ClientCall("close", TRUE)>>
              /\ ~worker'.is_running]_vars

\* A worker that was started and then stopped: the consumer is cancelled and
\* the connection closed.
C22_Witness ==
    /\ entry = "lifecycle"
    /\ \E i, j \in 1..Len(calls) :
           /\ i < j
           /\ calls[i].fn = "start" /\ calls[i].ok /\ calls[i].arg = 0
           /\ calls[j].fn = "stop" /\ calls[j].arg = 1
    /\ ~worker.is_running
    /\ worker.connection = "closed"
    /\ worker.consumer_tag = <<>>

\* The broker holds every queue the worker needs.
AllQueuesExist == \A i \in 1..Len(RequiredQueues) : RequiredQueues[i] \in broker.queues

(***************************************************************************)
(* C26: connect() only looks the four queues up: every queue_declare it    *)
(* sends is passive, the queues of the broker stay as they were, and it    *)
(* returns only when the broker answers and holds all four queues; in      *)
(* every other case it raises.                                             *)
(***************************************************************************)
C26_ConnectOnlyVerifies ==
    [][/\ broker' = broker
       /\ \A i \in 1..Len(worker'.wire) :
              worker'.wire[i].op = "queue_declare" => worker'.wire[i].passive
       /\ \A i \in 1..Len(worker'.api) :
              worker'.api[i].fn = "connect" =>
                  (worker'.api[i].ok <=> (broker.reachable /\ AllQueuesExist))]_vars

\* connect() raised on a broker that answers but lacks one of the queues.
C26_Witness ==
    /\ entry = "lifecycle"
    /\ broker.reachable
    /\ ~AllQueuesExist
    /\ broker.queues # {}
    /\ \E i \in 1..Len(worker.api) : worker.api[i].fn = "connect" /\ ~worker.api[i].ok

\* Delivery t is the end-to-end scenario: a complete request for split size
\* 5, the download stores a document of 15 pages.
IsScenario(t) ==
    /\ entry = "process"
    /\ attempts[t].body.has = AllFields
    /\ GetSplitSize(attempts[t].body) = ScenarioSplitSize
    /\ env.download = "ok"
    /\ env.pages = ScenarioPages

(***************************************************************************)
(* C23: end to end, a 15-page document requested with split size 5 and no  *)
(* failing collaborator yields 3 parts (1-5, 6-10, 11-15), exactly 3       *)
(* part-conversion requests, 3 upload progress events the last with        *)
(* progress 100, no 'failed' status event, and an acknowledged delivery.   *)
(***************************************************************************)
C23_EndToEndScenario ==
    \A t \in Tags :
        (IsScenario(t) /\ Finished(t))
            => /\ Cardinality(Acks(t)) = 1
               /\ Nacks(t) = {}
               /\ FailedEvents(t) = {}
               /\ RetryMessages(t) = {}
               /\ Cardinality(PartRequests(t)) = 3
               /\ LET reqs == PartRequestSeq(log)
                  IN /\ Len(reqs) = 3
                     /\ [k \in 1..3 |-> <<reqs[k].startPage, reqs[k].endPage>>]
                            = <<<<1, 5>>, <<6, 10>>, <<11, 15>>>>
               /\ LET done == CompletionProgress(log)
                  IN Len(done) = 3 /\ done[3] = 100

(***************************************************************************)
(* C24: the parts depend only on the page count of the downloaded document *)
(* and on the split size, never on the pageCount the request declares:     *)
(* split_pdf is handed the requested split size and ends as it does for a  *)
(* document of the downloaded page count, and every part-conversion        *)
(* request carries a part of that document.                                *)
(***************************************************************************)
C24_DeclaredPageCountIgnored ==
    \A t \in Tags :
        /\ \A i \in CallsOf(t) :
              calls[i].fn = "split_pdf"
                  => /\ calls[i].arg = GetSplitSize(attempts[t].body)
                     /\ entry # "stubbed"
                           => calls[i].ok = split_pdf(env.pages, calls[i].arg, "lambda").ok
        /\ \A i \in PartRequests(t) :
              \E k \in 1..total_parts_of(env.pages, GetSplitSize(attempts[t].body)) :
                  <<log[i].msg.partIndex, log[i].msg.startPage, log[i].msg.endPage>>
                      = LET pt == PartList(env.pages, GetSplitSize(attempts[t].body))[k]
                        IN <<pt.part_index, pt.start_page, pt.end_page>>

\* A request that declares 15 pages for a document that has none was split:
\* split_pdf returned the empty list of parts.
C24_Witness ==
    \E t \in Tags :
        /\ Finished(t)
        /\ attempts[t].body.pageCount = ScenarioPages
        /\ env.pages = 0
        /\ \E i \in CallsOf(t) : calls[i].fn = "split_pdf" /\ calls[i].ok

(***************************************************************************)
(* C25: every progress event carries a progress that is None or an integer *)
(* in 0..100; update_item_status publishes a value below 0 as 0, a value   *)
(* above 100 as 100 and a value in range unchanged, on                     *)
(* 'pdf-conversion-progress', with the itemId, status and message given.   *)
(***************************************************************************)
C25_ProgressClamped ==
    /\ \A i \in Published :
          log[i].queue = "pdf-conversion-progress"
              => \/ log[i].msg.progress = <<>>
                 \/ log[i].msg.progress[1] \in 0..100
    /\ entry = "status" =>
          \A i \in DOMAIN log :
              LET a == calls[i].arg
                  m == log[i].msg
              IN /\ log[i].op = "publish"
                 /\ log[i].queue = "pdf-conversion-progress"
                 /\ m.itemId = a.item_id /\ m.status = a.status /\ m.message = a.message
                 /\ a.progress = <<>> => m.progress = <<>>
                 /\ a.progress # <<>> =>
                       m.progress = <<IF a.progress[1] < 0 THEN 0
                                      ELSE IF a.progress[1] > 100 THEN 100
                                      ELSE a.progress[1]>>

\* A progress of more than 100 was given, and the event was published.
C25_Witness ==
    /\ entry = "status"
    /\ Len(log) = 1
    /\ calls[1].arg.progress # <<>>
    /\ calls[1].arg.progress[1] > 100

(***************************************************************************)
(* C27: the storage key of a part is a function of (itemId, partIndex)     *)
(* only, 'pdf-parts/<itemId>/part_<partIndex+1>.pdf', distinct for         *)
(* distinct part indexes, so that uploading a part again targets and       *)
(* overwrites the same key; upload_part returns that key and its address   *)
(* with and without storage credentials.                                   *)
(***************************************************************************)
C27_DeterministicKey ==
    (entry = "upload_part" /\ partUp.cfg.put_ok) =>
        /\ \A i \in DOMAIN partUp.done :
              LET d == partUp.done[i]
              IN /\ d.res.ok
                 /\ d.res.s3_key = s3_key_of(partUp.item_id, d.part_index)
                 /\ d.res.s3_url = s3_url_of(d.res.s3_key)
        /\ \A i, j \in DOMAIN partUp.done :
              (partUp.done[i].part_index = partUp.done[j].part_index)
                  <=> (partUp.done[i].res.s3_key = partUp.done[j].res.s3_key)
        /\ partUp.stored = {partUp.done[i].res.s3_key : i \in DOMAIN partUp.done}

\* The trace of a download is GET, sleep, GET, sleep, GET, cut where it ended.
Gets == {n \in DOMAIN dl.trace : dl.trace[n].ev = "GET"}
Sleeps == {n \in DOMAIN dl.trace : dl.trace[n].ev = "sleep"}
Succeeded(n) == dl.trace[n].ev = "GET" /\ dl.trace[n].response = Http(200)

(***************************************************************************)
(* C28: download_pdf_from_s3 makes at most 3 HTTP attempts, waits 1 second *)
(* before the second and 2 seconds before the third, stops at the first    *)
(* attempt that returns HTTP 200, and raises after the third failed        *)
(* attempt instead of returning.                                           *)
(***************************************************************************)
C28_ThreeAttemptsWithBackoff ==
    entry = "download" =>
        /\ Cardinality(Gets) <= 3
        /\ \A n \in DOMAIN dl.trace :
              /\ (n % 2 = 1) <=> (n \in Gets)
              /\ n = 2 => dl.trace[n].seconds = 1
              /\ n = 4 => dl.trace[n].seconds = 2
              /\ Succeeded(n) => n = Len(dl.trace)
        /\ dl.pc = "returned" <=> (dl.trace # <<>> /\ Succeeded(Len(dl.trace)))
        /\ dl.pc = "raised" <=> (Cardinality(Gets) = 3 /\ ~Succeeded(Len(dl.trace)))
        /\ dl.pc = "active" => (dl.trace = <<>> \/ Len(dl.trace) \in Sleeps)

\* Three attempts failed, with both waits between them, and the call raised.
C28_Witness ==
    /\ entry = "download"
    /\ dl.pc = "raised"
    /\ Cardinality(Gets) = 3
    /\ Cardinality(Sleeps) = 2

(***************************************************************************)
(* C29: only timeouts and network errors are retried: an attempt answered  *)
(* with a status outside 2xx (404, say) makes the download fail at once,   *)
(* with no further HTTP attempt and no backoff wait.                       *)
(***************************************************************************)
C29_NonSuccessStatusFailsAtOnce ==
    entry = "download" =>
        \A n \in Gets :
            (dl.trace[n].response.kind = "http" /\ dl.trace[n].response.status \notin 200..299)
                => /\ n = Len(dl.trace)
                   /\ dl.pc = "raised"

\* The settlements of delivery t: its basic_ack and basic_nack calls.
Settlements(t) == Acks(t) \cup Nacks(t)

StatusAt(i) == log[i].msg.status
Terminal(i) == StatusAt(i) \in {"failed", "completed"}

\* The last progress event of delivery t.
LastEvent(t) == CHOOSE i \in ProgressEvents(t) : \A j \in ProgressEvents(t) : j <= i

Batches(n) == (n + concurrent_limit - 1) \div concurrent_limit

AllStagesSucceeded(t) == attempts[t].stage = "none" /\ Acks(t) # {}

Deliveries == 1..(DefaultMaxRetries + 2)

StopCalled == Len(calls') = Len(calls) + 1 /\ calls'[Len(calls')].fn = "stop"
StartOfRunning ==
    /\ Len(calls') = Len(calls) + 1
    /\ calls'[Len(calls')].fn = "start"
    /\ worker.is_running

C35_RunningOnlyAfterConsumeReturns ==
    /\ [](worker.pc = "consuming" => ~worker.is_running)
    /\ [][/\ (~worker.is_running /\ worker'.is_running)
                  => (worker.pc = "consuming" /\ worker'.pc = "idle")
          /\ (StopCalled /\ ~worker.is_running) => (worker' = worker /\ broker' = broker)
          /\ StartOfRunning => (worker' = worker /\ broker' = broker)]_vars

\* stop() was called while start() was blocked in the consume loop: the
\* consumer is still registered and the connection still open.
C35_Witness ==
    /\ entry = "lifecycle"
    /\ worker.pc = "consuming"
    /\ \E i \in 1..Len(calls) : calls[i].fn = "stop" /\ calls[i].arg = 2
    /\ worker.consumer_tag # <<>>
    /\ worker.connection = "open"
    /\ ~worker.is_running

(***************************************************************************)
(* C36: when the publish of the retry message raises while a failed        *)
(* attempt with retryCount < maxRetries is handled, the error is           *)
(* swallowed: the delivery is still nacked with requeue=false afterwards,  *)
(* nothing is put on 'pdf-splitting-request', and the 'failed' progress    *)
(* event is all that was published for the delivery.                       *)
(***************************************************************************)
\* The retry publishes of delivery t that raised.
RaisedRetries(t) ==
    {i \in OpsOf(t) : log[i].op = "publish_raised" /\ log[i].queue = "pdf-splitting-request"}

C36_RetryPublishFailureSwallowed ==
    \A t \in Tags :
        (Finished(t) /\ FailedAfterParse(t) /\ should_retry(attempts[t].body)
                     /\ env.retry_publish = "fail")
            => /\ RaisedRetries(t) # {}
               /\ \E i \in RaisedRetries(t) : \E j \in Nacks(t) : i < j
               /\ \A j \in Nacks(t) : ~log[j].requeue
               /\ Acks(t) = {}
               /\ RetryMessages(t) = {}
               /\ queue = <<>>
               /\ FailedEvents(t) # {}
               /\ \A i \in OpsOf(t) \cap Published : i \in FailedEvents(t)

\* The handler dealt with a retryable request on the lossy channel.
C36_Witness ==
    \E t \in Tags :
        /\ entry = "lossy"
        /\ Finished(t)
        /\ should_retry(attempts[t].body)
        /\ RaisedRetries(t) # {}
        /\ Nacks(t) # {}

CarriedFields == {"itemId", "s3Url", "s3Key", "fileName", "pageCount", "splitSize",
                  "priority", "maxRetries"}

\* Request r carries the fields of m that a retry must not touch.
CarriesOver(m, r) ==
    /\ r.kind = m.kind
    /\ r.has \cap CarriedFields = m.has \cap CarriedFields
    /\ r.has = m.has \cup {"messageId", "timestamp", "retryCount"}
    /\ r.itemId = m.itemId /\ r.s3Url = m.s3Url /\ r.s3Key = m.s3Key
    /\ r.fileName = m.fileName /\ r.pageCount = m.pageCount
    /\ r.splitSize = m.splitSize /\ r.priority = m.priority
    /\ r.maxRetries = m.maxRetries

C38_RetryCarriesRequestOver ==
    \A t \in Tags : \A i \in RetryMessages(t) :
        LET m == attempts[t].body
            r == log[i].msg
        IN /\ CarriesOver(m, r)
           /\ r.retryCount = GetRetryCount(m) + 1
           /\ GetRetryCount(m) <= GetMaxRetries(m) => GetRetryCount(r) <= GetMaxRetries(r)

\* The second retry of a request that declares its page count and split
\* size was published with retryCount equal to maxRetries.
C38_Witness ==
    \E t \in Tags : \E i \in RetryMessages(t) :
        /\ t >= 2
        /\ log[i].msg.retryCount = 2
        /\ GetMaxRetries(log[i].msg) = 2
        /\ "splitSize" \in log[i].msg.has
        /\ log[i].msg.pageCount = ScenarioPages

(***************************************************************************)
(* C39: across the retry chain of one itemId a part can receive more than  *)
(* one conversion request: when the dispatch fails after the requests for  *)
(* parts 0..k-1 were published, these stay published, and the retry        *)
(* attempt publishes a request for every part again, parts 0..k-1          *)
(* included.                                                               *)
(***************************************************************************)
\* The part indices delivery t published a conversion request for.
PartsRequested(t) == {log[i].msg.partIndex : i \in PartRequests(t)}
\* The part-request publishes of delivery t that raised.
RaisedPartRequests(t) ==
    {i \in OpsOf(t) : log[i].op = "publish_raised"
                         /\ log[i].queue = "pdf-part-conversion-request"}
TotalParts(t) == Max(0, total_parts_of(env.pages, GetSplitSize(attempts[t].body)))

WithoutCallback(total_pages, split_size) == split_pdf(total_pages, split_size, "none")

C40_CallbackDoesNotChangeSplit ==
    /\ (SplitDone /\ split.cb # "none")
          => LET r == WithoutCallback(split.total_pages, split.split_size)
             IN /\ (split.pc = "returned") = r.ok
                /\ split.parts = r.parts
                /\ split.err = r.err
    /\ \A t \in Tags : \A i \in CallsOf(t) :
          (entry = "process" /\ calls[i].fn = "split_pdf")
              => LET r == WithoutCallback(env.pages, calls[i].arg)
                 IN /\ calls[i].ok = r.ok
                    /\ (~calls[i].ok /\ attempts[t].stage = "split") => attempts[t].err = r.err
====
